---- MODULE Spec2Model ----
(***************************************************************************)
(* Model of py/wiki.py: replace_within (region substitution in wikitext)   *)
(* and clean_data (zero-run compression of a chronological series).        *)
(* Strings are sequences of one-character strings.                         *)
(***************************************************************************)
EXTENDS Integers, Sequences, FiniteSets, TLC

VARIABLES
    datetimes,               \* clean_data argument: day ordinals of year 2020
    numbers,                 \* clean_data argument
    i,                       \* 1-based position of the next sample of the for loop
    mode,
    multiple_zeros_allowed,
    cleaned_dates,
    cleaned_numbers,
    pc,                      \* "loop" | "done" | "idle"
    ret,                     \* value returned by clean_data
    begin_re, end_re, data,  \* replace_within arguments
    text,                    \* the source argument as the caller passed it
    source,                  \* the local variable source
    rpc,                     \* "sub" | "test" | "fill" | "error" | "return" | "done" | "idle"
    logged,                  \* messages handed to log.log
    result                   \* value returned by replace_within

cvars == <<datetimes, numbers, i, mode, multiple_zeros_allowed,
           cleaned_dates, cleaned_numbers, pc, ret>>
rvars == <<begin_re, end_re, data, text, source, rpc, logged, result>>
vars == <<datetimes, numbers, i, mode, multiple_zeros_allowed,
          cleaned_dates, cleaned_numbers, pc, ret,
          begin_re, end_re, data, text, source, rpc, logged, result>>

-----------------------------------------------------------------------------
(* Bounds *)

MaxLen == 6
MaxVal == 2
MaxPieces == 4

-----------------------------------------------------------------------------
(* Generic string helpers (Python str semantics) *)

RECURSIVE Concat(_)
Concat(ss) == IF ss = <<>> THEN <<>> ELSE Head(ss) \o Concat(Tail(ss))

\* s[from - 1:] in Python terms, with 1-based from
Drop(s, from) == SubSeq(s, from, Len(s))

\* whether the literal t occurs in s at 1-based position k
OccursAt(t, s, k) ==
    /\ k >= 1
    /\ k + Len(t) - 1 <= Len(s)
    /\ \A j \in 1..Len(t) : s[k + j - 1] = t[j]

\* Python: t in s
Contains(s, t) == \E k \in 1..(Len(s) + 1) : OccursAt(t, s, k)

\* Python: sep.join(items)
RECURSIVE Join(_, _)
Join(sep, items) ==
    IF items = <<>> THEN <<>>
    ELSE IF Len(items) = 1 THEN items[1]
    ELSE items[1] \o sep \o Join(sep, Tail(items))

\* Python: s.lstrip(c)
RECURSIVE LStrip(_, _)
LStrip(s, c) == IF s # <<>> /\ Head(s) = c THEN LStrip(Tail(s), c) ELSE s

Digit == <<"0", "1", "2", "3", "4", "5", "6", "7", "8", "9">>

\* Python: str(n) for a non-negative int
RECURSIVE Str(_)
Str(n) == IF n < 10 THEN <<Digit[n + 1]>> ELSE Str(n \div 10) \o <<Digit[(n % 10) + 1]>>

-----------------------------------------------------------------------------
(* clean_data *)

MonthDays == <<31, 29, 31, 30, 31, 30, 31, 31, 30, 31, 30, 31>>
MonthAbbr == << <<"J","a","n">>, <<"F","e","b">>, <<"M","a","r">>, <<"A","p","r">>,
                <<"M","a","y">>, <<"J","u","n">>, <<"J","u","l">>, <<"A","u","g">>,
                <<"S","e","p">>, <<"O","c","t">>, <<"N","o","v">>, <<"D","e","c">> >>

\* month and day of month of the o-th day of 2020
RECURSIVE MonthDay(_, _)
MonthDay(o, m) ==
    IF o <= MonthDays[m] THEN [month |-> m, day |-> o]
    ELSE MonthDay(o - MonthDays[m], m + 1)

\* d.strftime('%d %b'): zero-padded day, a space, abbreviated month name
Strftime(o) ==
    LET md == MonthDay(o, 1)
    IN  <<Digit[(md.day \div 10) + 1], Digit[(md.day % 10) + 1], " ">> \o MonthAbbr[md.month]

\* formatted_dates = [d.strftime('%d %b').lstrip('0') for d in datetimes]
formatted_dates == [k \in 1..Len(datetimes) |-> LStrip(Strftime(datetimes[k]), "0")]

Ellipsis == <<".", ".", ".">>

\* length of zip(formatted_dates, numbers)
ZipLen == IF Len(datetimes) < Len(numbers) THEN Len(datetimes) ELSE Len(numbers)

\* the nested function normal_append, applied to the pair of lists
AppendedDates(cd, d) == Append(cd, d)
AppendedNumbers(cn, n) == Append(cn, n)

\* the loop has a sample left and is in mode m
AtSample(m) == pc = "loop" /\ i <= ZipLen /\ mode = m

\* continue: nothing is appended
Skip(newMode) ==
    /\ mode' = newMode
    /\ UNCHANGED <<cleaned_dates, cleaned_numbers>>

\* normal_append(d, n)
NormalAppend(d, n) ==
    /\ mode' = "NORMAL"
    /\ cleaned_dates' = AppendedDates(cleaned_dates, d)
    /\ cleaned_numbers' = AppendedNumbers(cleaned_numbers, n)

\* normal_append(d1, n1); normal_append(d2, n2)
NormalAppendTwice(d1, n1, d2, n2) ==
    /\ mode' = "NORMAL"
    /\ cleaned_dates' = AppendedDates(AppendedDates(cleaned_dates, d1), d2)
    /\ cleaned_numbers' = AppendedNumbers(AppendedNumbers(cleaned_numbers, n1), n2)

Advance ==
    /\ i' = i + 1
    /\ UNCHANGED <<datetimes, numbers, pc, ret>>
    /\ UNCHANGED rvars

\* LeadingZeros without the test n == 0: every sample is appended
LeadingZeros_EmitsZeros ==
    /\ AtSample("LEADING_ZEROS")
    /\ NormalAppend(formatted_dates[i], numbers[i])
    /\ UNCHANGED multiple_zeros_allowed
    /\ Advance

LeadingZeros ==
    /\ AtSample("LEADING_ZEROS")
    /\ IF numbers[i] = 0
       THEN Skip("LEADING_ZEROS")
       ELSE NormalAppend(formatted_dates[i], numbers[i])
    /\ UNCHANGED multiple_zeros_allowed
    /\ Advance

\* Normal without the continue: the zero is appended and held back as well
Normal_NoContinue ==
    /\ AtSample("NORMAL")
    /\ IF multiple_zeros_allowed /\ numbers[i] = 0
       THEN /\ mode' = "SINGLE_ZERO"
            /\ cleaned_dates' = AppendedDates(cleaned_dates, formatted_dates[i])
            /\ cleaned_numbers' = AppendedNumbers(cleaned_numbers, numbers[i])
       ELSE NormalAppend(formatted_dates[i], numbers[i])
    /\ UNCHANGED multiple_zeros_allowed
    /\ Advance

Normal ==
    /\ AtSample("NORMAL")
    /\ IF multiple_zeros_allowed /\ numbers[i] = 0
       THEN Skip("SINGLE_ZERO")
       ELSE NormalAppend(formatted_dates[i], numbers[i])
    /\ UNCHANGED multiple_zeros_allowed
    /\ Advance

\* SingleZero that forgets to restore the held-back zero
SingleZero_DropsSingleZero ==
    /\ AtSample("SINGLE_ZERO")
    /\ IF numbers[i] = 0
       THEN /\ mode' = "MULTIPLE_ZEROS"
            /\ cleaned_dates' = Append(cleaned_dates, Ellipsis)
            /\ cleaned_numbers' = Append(cleaned_numbers, 0)
       ELSE NormalAppend(formatted_dates[i], numbers[i])
    /\ UNCHANGED multiple_zeros_allowed
    /\ Advance

\* SingleZero that emits the held-back zero in front of the ellipsis
SingleZero_RestoresBeforeEllipsis ==
    /\ AtSample("SINGLE_ZERO")
    /\ IF numbers[i] = 0
       THEN /\ mode' = "MULTIPLE_ZEROS"
            /\ cleaned_dates' = Append(Append(cleaned_dates, formatted_dates[i - 1]), Ellipsis)
            /\ cleaned_numbers' = Append(Append(cleaned_numbers, 0), 0)
       ELSE NormalAppendTwice(formatted_dates[i - 1], 0, formatted_dates[i], numbers[i])
    /\ UNCHANGED multiple_zeros_allowed
    /\ Advance

\* SingleZero that restores the zero under formatted_dates[i] instead of [i - 1]
SingleZero_WrongLabel ==
    /\ AtSample("SINGLE_ZERO")
    /\ IF numbers[i] = 0
       THEN /\ mode' = "MULTIPLE_ZEROS"
            /\ cleaned_dates' = Append(cleaned_dates, Ellipsis)
            /\ cleaned_numbers' = Append(cleaned_numbers, 0)
       ELSE NormalAppendTwice(formatted_dates[i], 0, formatted_dates[i], numbers[i])
    /\ UNCHANGED multiple_zeros_allowed
    /\ Advance

SingleZero ==
    /\ AtSample("SINGLE_ZERO")
    /\ IF numbers[i] = 0
       THEN /\ mode' = "MULTIPLE_ZEROS"
            /\ cleaned_dates' = Append(cleaned_dates, Ellipsis)
            /\ cleaned_numbers' = Append(cleaned_numbers, 0)
       ELSE NormalAppendTwice(formatted_dates[i - 1], 0, formatted_dates[i], numbers[i])
    /\ UNCHANGED multiple_zeros_allowed
    /\ Advance

\* MultipleZeros that appends an ellipsis for every further zero
MultipleZeros_RepeatsEllipsis ==
    /\ AtSample("MULTIPLE_ZEROS")
    /\ IF numbers[i] = 0
       THEN /\ mode' = "MULTIPLE_ZEROS"
            /\ cleaned_dates' = Append(cleaned_dates, Ellipsis)
            /\ cleaned_numbers' = Append(cleaned_numbers, 0)
            /\ UNCHANGED multiple_zeros_allowed
       ELSE /\ multiple_zeros_allowed' = FALSE
            /\ NormalAppend(formatted_dates[i], numbers[i])
    /\ Advance

\* MultipleZeros that never clears multiple_zeros_allowed
MultipleZeros_KeepsEliding ==
    /\ AtSample("MULTIPLE_ZEROS")
    /\ IF numbers[i] = 0
       THEN Skip("MULTIPLE_ZEROS")
       ELSE NormalAppend(formatted_dates[i], numbers[i])
    /\ UNCHANGED multiple_zeros_allowed
    /\ Advance

MultipleZeros ==
    /\ AtSample("MULTIPLE_ZEROS")
    /\ IF numbers[i] = 0
       THEN /\ Skip("MULTIPLE_ZEROS")
            /\ UNCHANGED multiple_zeros_allowed
       ELSE /\ multiple_zeros_allowed' = FALSE
            /\ NormalAppend(formatted_dates[i], numbers[i])
    /\ Advance

CommaSpace == <<",", " ">>

\* return (', '.join(str(x) for x in cleaned_dates), ', '.join(str(x) for x in cleaned_numbers))
ReturnValue ==
    <<Join(CommaSpace, cleaned_dates),
      Join(CommaSpace, [k \in 1..Len(cleaned_numbers) |-> Str(cleaned_numbers[k])])>>

Return ==
    /\ pc = "loop"
    /\ i > ZipLen
    /\ pc' = "done"
    /\ ret' = ReturnValue
    /\ UNCHANGED <<datetimes, numbers, i, mode, multiple_zeros_allowed,
                   cleaned_dates, cleaned_numbers>>
    /\ UNCHANGED rvars

\* first days of the series the callers plot: consecutive calendar days
StartDays == {9, 30}

RECURSIVE SeqsUpTo(_, _)
SeqsUpTo(S, n) ==
    IF n = 0 THEN {<<>>}
    ELSE LET shorter == SeqsUpTo(S, n - 1)
         IN  shorter \cup {Append(s, x) : s \in {t \in shorter : Len(t) = n - 1}, x \in S}

RIdle ==
    /\ begin_re = <<>> /\ end_re = <<>> /\ data = <<>> /\ text = <<>>
    /\ source = <<>> /\ rpc = "idle" /\ logged = <<>> /\ result = <<>>

CIdle ==
    /\ datetimes = <<>> /\ numbers = <<>> /\ i = 1 /\ mode = "LEADING_ZEROS"
    /\ multiple_zeros_allowed = TRUE /\ cleaned_dates = <<>> /\ cleaned_numbers = <<>>
    /\ pc = "idle" /\ ret = <<>>

CleanInit ==
    /\ numbers \in SeqsUpTo(0..MaxVal, MaxLen)
    /\ \E start \in StartDays : datetimes = [k \in 1..Len(numbers) |-> start + k - 1]
    /\ i = 1
    /\ mode = "LEADING_ZEROS"
    /\ multiple_zeros_allowed = TRUE
    /\ cleaned_dates = <<>>
    /\ cleaned_numbers = <<>>
    /\ pc = "loop"
    /\ ret = <<>>
    /\ RIdle

CleanNext == LeadingZeros \/ Normal \/ SingleZero \/ MultipleZeros \/ Return

CleanSpec == CleanInit /\ [][CleanNext]_vars

-----------------------------------------------------------------------------
(* Vocabulary of the properties of clean_data *)

\* the samples of the input series: (label, value) pairs
Sample(k) == <<LStrip(Strftime(datetimes[k]), "0"), numbers[k]>>
Samples == [k \in 1..ZipLen |-> Sample(k)]

\* the entries emitted so far: (label, value) pairs
Entries == [k \in 1..Len(cleaned_dates) |-> <<cleaned_dates[k], cleaned_numbers[k]>>]

EllipsisEntry == <<Ellipsis, 0>>

\* the number of samples the loop has read
SamplesRead == i - 1

IsNonzero(e) == e[2] # 0
IsLiteral(e) == e[1] # Ellipsis

\* a is a subsequence of b (greedy left-to-right embedding)
RECURSIVE IsSubsequence(_, _)
IsSubsequence(a, b) ==
    IF a = <<>> THEN TRUE
    ELSE IF b = <<>> THEN FALSE
    ELSE IF Head(a) = Head(b) THEN IsSubsequence(Tail(a), Tail(b))
    ELSE IsSubsequence(a, Tail(b))

\* Python: s.split(sep) for a non-empty sep
RECURSIVE SplitFrom(_, _, _)
SplitFrom(s, sep, cur) ==
    IF s = <<>> THEN <<cur>>
    ELSE IF OccursAt(sep, s, 1) THEN <<cur>> \o SplitFrom(Drop(s, Len(sep) + 1), sep, <<>>)
    ELSE SplitFrom(Tail(s), sep, Append(cur, Head(s)))

Split(s, sep) == SplitFrom(s, sep, <<>>)

\* the labels of the returned dates string, one per entry
ReturnedLabels == IF ret[1] = <<>> THEN <<>> ELSE Split(ret[1], CommaSpace)

AllZero == \A k \in 1..ZipLen : numbers[k] = 0

\* first nonzero sample (0 when there is none)
FirstNonzero ==
    IF AllZero THEN 0
    ELSE CHOOSE k \in 1..ZipLen : numbers[k] # 0 /\ \A j \in 1..(k - 1) : numbers[j] = 0

\* positions after the first nonzero sample where a run of two or more zeros starts
PairStarts ==
    LET f == FirstNonzero
    IN  {k \in 1..(ZipLen - 1) : f # 0 /\ k > f /\ numbers[k] = 0 /\ numbers[k + 1] = 0}

\* first and last position of the first such run (0 when there is none)
RunStart == LET P == PairStarts
            IN  IF P = {} THEN 0 ELSE CHOOSE k \in P : \A j \in P : k <= j
RunEnd == LET a == RunStart
          IN  IF a = 0 THEN 0
              ELSE CHOOSE b \in a..ZipLen :
                       /\ \A j \in a..b : numbers[j] = 0
                       /\ (b = ZipLen \/ numbers[b + 1] # 0)

\* first and last position of the maximal zero run that holds position k
ZeroRunFirst(k) == CHOOSE a \in 1..k :
                       /\ \A j \in a..k : numbers[j] = 0
                       /\ (a = 1 \/ numbers[a - 1] # 0)
ZeroRunLast(k) == CHOOSE b \in k..ZipLen :
                      /\ \A j \in k..b : numbers[j] = 0
                      /\ (b = ZipLen \/ numbers[b + 1] # 0)

-----------------------------------------------------------------------------
(* Properties of clean_data, checked under CleanSpec *)

Running == pc \in {"loop", "done"}
Done == pc = "done"

\* The transition table of the run-compressor: an enumerated state, the
\* elision flag, the label of the held-back zero sample, and the output.
TableInit == [mode |-> "LEADING_ZEROS", allowed |-> TRUE, held |-> <<>>, out |-> <<>>]

TableStep(st, d, n) ==
    CASE st.mode = "LEADING_ZEROS" ->
            IF n = 0 THEN st
            ELSE [st EXCEPT !.mode = "NORMAL", !.out = Append(@, <<d, n>>)]
      [] st.mode = "NORMAL" ->
            IF st.allowed /\ n = 0
            THEN [st EXCEPT !.mode = "SINGLE_ZERO", !.held = d]
            ELSE [st EXCEPT !.out = Append(@, <<d, n>>)]
      [] st.mode = "SINGLE_ZERO" ->
            IF n = 0
            THEN [st EXCEPT !.mode = "MULTIPLE_ZEROS", !.out = Append(@, EllipsisEntry)]
            ELSE [st EXCEPT !.mode = "NORMAL",
                            !.out = Append(Append(@, <<st.held, 0>>), <<d, n>>)]
      [] st.mode = "MULTIPLE_ZEROS" ->
            IF n = 0 THEN st
            ELSE [st EXCEPT !.mode = "NORMAL", !.allowed = FALSE,
                            !.out = Append(@, <<d, n>>)]

RECURSIVE TableRun(_)
TableRun(k) ==
    IF k = 0 THEN TableInit
    ELSE TableStep(TableRun(k - 1), Sample(k)[1], Sample(k)[2])

\* C4: after every prefix of the series, the mode, the elision flag and the
\* entries appended by clean_data are those the four-state transition table
\* reaches on that prefix; and the empty and the all-zero series return an
\* empty output.
C4_RefinesTable ==
    Running =>
        /\ LET t == TableRun(SamplesRead)
           IN  /\ mode = t.mode
               /\ multiple_zeros_allowed = t.allowed
               /\ Entries = t.out
        /\ (Done /\ AllZero) => ret = << <<>>, <<>> >>

\* a finished run that restored a single zero, elided a run and disabled elision
C4_Witness ==
    /\ Done
    /\ ~multiple_zeros_allowed
    /\ \E k \in 1..Len(Entries) : \E j \in 1..(k - 1) :
           Entries[k] = EllipsisEntry /\ IsLiteral(Entries[j]) /\ ~IsNonzero(Entries[j])

NoAdjacentEllipsis(labels) ==
    \A k \in 1..(Len(labels) - 1) : ~(labels[k] = Ellipsis /\ labels[k + 1] = Ellipsis)

\* C5: the output never holds two ellipsis markers at adjacent positions,
\* neither in the list being built nor in the returned dates string.
C5_NoAdjacentEllipsis ==
    Running =>
        /\ NoAdjacentEllipsis(cleaned_dates)
        /\ Done => NoAdjacentEllipsis(ReturnedLabels)

\* a finished run over a series with three zeros in a row after a nonzero
\* sample, whose output holds an ellipsis
C5_Witness ==
    /\ Done
    /\ \E k \in 1..Len(ReturnedLabels) : ReturnedLabels[k] = Ellipsis
    /\ \E k \in 2..(ZipLen - 2) :
           numbers[k - 1] # 0 /\ numbers[k] = 0 /\ numbers[k + 1] = 0 /\ numbers[k + 2] = 0

\* C6: after every prefix, the number of entries emitted is at most the
\* number of samples read; the returned output is no longer than the input.
C6_LengthBound ==
    Running =>
        /\ Len(cleaned_dates) = Len(cleaned_numbers)
        /\ Len(cleaned_dates) <= SamplesRead
        /\ Done => Len(ReturnedLabels) <= ZipLen

\* SINGLE_ZERO has just emitted two entries on one nonzero sample and the
\* output is as long as the prefix read
C6_Witness ==
    /\ pc = "loop"
    /\ mode = "NORMAL"
    /\ multiple_zeros_allowed
    /\ SamplesRead >= 3
    /\ numbers[SamplesRead - 1] = 0
    /\ Len(Entries) = SamplesRead
    /\ Entries[Len(Entries) - 1] = <<formatted_dates[SamplesRead - 1], 0>>

\* the entries the statement "interior runs of three or more zeros are
\* replaced, isolated and boundary zero runs are kept" asks for at sample k
ThreeOrMorePiece(k) ==
    IF numbers[k] # 0 THEN <<Sample(k)>>
    ELSE LET a == ZeroRunFirst(k)
             b == ZeroRunLast(k)
         IN  IF a > 1 /\ b < ZipLen /\ b - a + 1 >= 3
             THEN (IF k = a THEN <<EllipsisEntry>> ELSE <<>>)
             ELSE <<Sample(k)>>

\* C7 as stated: an interior zero run becomes one ellipsis exactly when it
\* has three or more zeros; every isolated zero and every zero run at the
\* start or at the end of the series is emitted literally.
C7_ThreeOrMoreElided ==
    Done => Entries = Concat([k \in 1..ZipLen |-> ThreeOrMorePiece(k)])

\* what the code emits for sample k, told by runs: leading zeros dropped; the
\* first run of two or more zeros after the first nonzero sample becomes one
\* ellipsis; with no such run a single zero ending the series is dropped;
\* every other sample is emitted literally
FirstRunPiece(k, first, runStart, runEnd) ==
    IF first = 0 \/ k < first THEN <<>>
    ELSE IF runStart # 0 /\ runStart <= k /\ k <= runEnd
         THEN (IF k = runStart THEN <<EllipsisEntry>> ELSE <<>>)
    ELSE IF runStart = 0 /\ k = ZipLen /\ numbers[k] = 0 THEN <<>>
    ELSE <<Sample(k)>>

FirstRunEntries ==
    LET first == FirstNonzero
        runStart == RunStart
        runEnd == RunEnd
    IN  Concat([k \in 1..ZipLen |-> FirstRunPiece(k, first, runStart, runEnd)])

\* C7 amended: clean_data replaces by one ellipsis exactly the first run of
\* two or more consecutive zeros that follows the first nonzero sample; the
\* leading zeros are dropped, a single zero that ends the series before any
\* elision is dropped, and every other sample is emitted literally.
C7_FirstRunOfTwoElided ==
    Done =>
        /\ Entries = FirstRunEntries
        /\ ReturnedLabels = cleaned_dates

\* a finished run with an isolated zero kept, then a run of exactly two zeros
\* elided and closed by a nonzero sample
C7_Witness ==
    /\ Done
    /\ RunStart # 0
    /\ RunEnd = RunStart + 1
    /\ RunEnd < ZipLen
    /\ \E k \in 1..(RunStart - 1) : numbers[k] = 0 /\ k > FirstNonzero
    /\ Len(Entries) = ZipLen - 1

\* an ellipsis has been emitted and a nonzero sample read after it
ElisionClosed == \E k \in 1..(Len(cleaned_dates) - 1) : cleaned_dates[k] = Ellipsis

\* C8: once an ellipsis has been emitted and the next nonzero sample read,
\* elision is and stays disabled, and every later step appends exactly the
\* sample it reads, with its own label and value.
C8_OneShotElision ==
    [][(pc = "loop" /\ ElisionClosed) =>
          /\ ~multiple_zeros_allowed
          /\ ~multiple_zeros_allowed'
          /\ (i' = i + 1) =>
                /\ mode' = "NORMAL"
                /\ cleaned_dates' = Append(cleaned_dates, formatted_dates[i])
                /\ cleaned_numbers' = Append(cleaned_numbers, numbers[i])]_vars

\* after an elision, a run of two zeros has been emitted literally
C8_Witness ==
    /\ ElisionClosed
    /\ \E k \in 1..Len(Entries) : \E j \in (k + 2)..(Len(Entries) - 1) :
           /\ Entries[k] = EllipsisEntry
           /\ Entries[j] = <<formatted_dates[SamplesRead - 1], 0>>
           /\ Entries[j + 1] = <<formatted_dates[SamplesRead], 0>>

\* entry e is the literal entry of the nonzero sample at position a
IsNonzeroSample(e, a) == a \in 1..ZipLen /\ numbers[a] # 0 /\ e = Sample(a)

\* the entry before position k of the output is the last nonzero sample before a zero run
PrecededByBoundary(k, a) ==
    /\ k > 1
    /\ IsNonzeroSample(Entries[k - 1], a)
    /\ a < ZipLen
    /\ numbers[a + 1] = 0

\* the entry after position k is the first nonzero sample after the zero run that follows a
FollowedByBoundary(k, a) ==
    /\ k < Len(Entries)
    /\ \E b \in (a + 2)..ZipLen :
          /\ IsNonzeroSample(Entries[k + 1], b)
          /\ \A j \in (a + 1)..(b - 1) : numbers[j] = 0

\* the zero run that follows a reaches the end of the series
RunToEnd(a) == \A j \in (a + 1)..ZipLen : numbers[j] = 0

\* C9 as stated: every ellipsis of the output stands between the literal
\* entries of the nonzero samples on both sides of the elided run, also when
\* the run extends to the end of the series.
C9_BothBoundariesKept ==
    Done =>
        \A k \in 1..Len(Entries) :
            cleaned_dates[k] = Ellipsis =>
                \E a \in 1..ZipLen : PrecededByBoundary(k, a) /\ FollowedByBoundary(k, a)

\* C9 amended: every ellipsis is immediately preceded by the literal entry of
\* the last nonzero sample before the elided run, and immediately followed by
\* the literal entry of the first nonzero sample after it when the series has
\* one; when the run extends to the end of the series the ellipsis is the
\* last entry of the output.
C9_BoundariesKeptWhenPresent ==
    Done =>
        \A k \in 1..Len(Entries) :
            cleaned_dates[k] = Ellipsis =>
                \E a \in 1..ZipLen :
                    /\ PrecededByBoundary(k, a)
                    /\ IF RunToEnd(a) THEN k = Len(Entries) ELSE FollowedByBoundary(k, a)

\* a finished run whose ellipsis sits between two nonzero entries and
\* replaced three or more zeros
C9_Witness ==
    /\ Done
    /\ \E k \in 2..(Len(Entries) - 1) :
           /\ cleaned_dates[k] = Ellipsis
           /\ \E a \in 1..ZipLen :
                  /\ PrecededByBoundary(k, a)
                  /\ FollowedByBoundary(k, a)
                  /\ a + 3 <= ZipLen
                  /\ numbers[a + 3] = 0

\* C10: the nonzero entries of the output are the nonzero samples read, in
\* order, label for label and value for value; the literal entries form a
\* subsequence of the samples read.
C10_NoNonzeroLost ==
    Running =>
        LET read == SubSeq(Samples, 1, SamplesRead)
        IN  /\ SelectSeq(Entries, IsNonzero) = SelectSeq(read, IsNonzero)
            /\ IsSubsequence(SelectSeq(Entries, IsLiteral), read)

\* a finished run that dropped a leading zero, restored an isolated zero
\* under its own label and dropped the single zero at the end
C10_Witness ==
    /\ Done
    /\ multiple_zeros_allowed
    /\ ZipLen >= 5
    /\ numbers[1] = 0
    /\ numbers[ZipLen] = 0
    /\ \E k \in 1..Len(Entries) : IsLiteral(Entries[k]) /\ ~IsNonzero(Entries[k])

-----------------------------------------------------------------------------
(* replace_within *)

\* the marker '@@REPL@@'
REPL == <<"@", "@", "R", "E", "P", "L", "@", "@">>

\* A delimiter regex is a sequence of atoms: "." matches any character
\* (the pattern is compiled with (?s)), any other atom matches itself.
AtomMatches(a, c) == a = "." \/ a = c

\* the regex re matches the characters of s that start at position k
MatchesAt(re, s, k) ==
    /\ k >= 1
    /\ k + Len(re) - 1 <= Len(s)
    /\ \A j \in 1..Len(re) : AtomMatches(re[j], s[k + j - 1])

NoMatch == [start |-> 0, inner |-> 0, close |-> 0, stop |-> 0]

\* positions q at or after from where end_re matches
Closers(s, from) == {q \in from..Len(s) : MatchesAt(end_re, s, q)}

\* positions p at or after pos where (begin_re)(?:.*?)(end_re) can match
Openers(s, pos) ==
    {p \in pos..Len(s) : MatchesAt(begin_re, s, p) /\ Closers(s, p + Len(begin_re)) # {}}

\* re.search(pattern, s, pos) for pattern = (?s)(begin_re)(?:.*?)(end_re):
\* the leftmost start, and for it the shortest gap
Search(s, pos) ==
    IF Openers(s, pos) = {} THEN NoMatch
    ELSE LET p == CHOOSE x \in Openers(s, pos) : \A y \in Openers(s, pos) : x <= y
             C == Closers(s, p + Len(begin_re))
             q == CHOOSE x \in C : \A y \in C : x <= y
         IN  [start |-> p, inner |-> p + Len(begin_re), close |-> q, stop |-> q + Len(end_re)]

\* re.sub(pattern, r'\1@@REPL@@\2', s), scanning on from position pos:
\* every non-overlapping match is rewritten
RECURSIVE ReSubFrom(_, _)
ReSubFrom(s, pos) ==
    LET m == Search(s, pos)
    IN  IF m = NoMatch THEN Drop(s, pos)
        ELSE SubSeq(s, pos, m.start - 1)
             \o SubSeq(s, m.start, m.inner - 1) \o REPL \o SubSeq(s, m.close, m.stop - 1)
             \o ReSubFrom(s, m.stop)

\* s.replace(old, new) for a non-empty old: every non-overlapping occurrence
RECURSIVE StrReplace(_, _, _)
StrReplace(s, old, new) ==
    IF s = <<>> THEN <<>>
    ELSE IF OccursAt(old, s, 1) THEN new \o StrReplace(Drop(s, Len(old) + 1), old, new)
    ELSE <<Head(s)>> \o StrReplace(Tail(s), old, new)

\* 'ERROR: Cannot match /{}/ and /{}/'.format(begin_re, end_re)
ErrorMessage ==
    <<"E","R","R","O","R",":"," ","C","a","n","n","o","t"," ","m","a","t","c","h"," ","/">>
    \o begin_re \o <<"/"," ","a","n","d"," ","/">> \o end_re \o <<"/">>

RFrame == UNCHANGED <<begin_re, end_re, data, text>> /\ UNCHANGED cvars

\* source = re.sub(pattern, r'\1@@REPL@@\2', source)
ReSub ==
    /\ rpc = "sub"
    /\ source' = ReSubFrom(source, 1)
    /\ rpc' = "test"
    /\ UNCHANGED <<logged, result>>
    /\ RFrame

\* if '@@REPL@@' in source: source = source.replace('@@REPL@@', data)
Fill ==
    /\ rpc = "test"
    /\ Contains(source, REPL)
    /\ source' = StrReplace(source, REPL, data)
    /\ rpc' = "return"
    /\ UNCHANGED <<logged, result>>
    /\ RFrame

\* else: log.log(''); log.log('ERROR: ...'); log.log('')
LogError ==
    /\ rpc = "test"
    /\ ~Contains(source, REPL)
    /\ logged' = logged \o << <<>>, ErrorMessage, <<>> >>
    /\ rpc' = "return"
    /\ UNCHANGED <<source, result>>
    /\ RFrame

\* return source
ReturnSource ==
    /\ rpc = "return"
    /\ result' = source
    /\ rpc' = "done"
    /\ UNCHANGED <<source, logged>>
    /\ RFrame

\* building blocks of the wikitext: a start marker, an end marker, content,
\* and the marker string itself
Pieces == {<<"<">>, <<">">>, <<"x">>, REPL}
Texts == {Concat(ps) : ps \in SeqsUpTo(Pieces, MaxPieces)}
BeginPatterns == {<<"<">>, <<"<", ".">>}
EndPatterns == {<<">">>, <<".", ">">>}
Replacements == {<<>>, <<"y">>, <<"<", "y", ">">>}

ReplaceInit ==
    /\ text \in Texts
    /\ begin_re \in BeginPatterns
    /\ end_re \in EndPatterns
    /\ data \in Replacements
    /\ source = text
    /\ rpc = "sub"
    /\ logged = <<>>
    /\ result = <<>>
    /\ CIdle

ReplaceNext == ReSub \/ Fill \/ LogError \/ ReturnSource

ReplaceSpec == ReplaceInit /\ [][ReplaceNext]_vars

-----------------------------------------------------------------------------
(* Properties of replace_within, checked under ReplaceSpec *)

Returned == rpc = "done"

\* the first region of the input text: leftmost start, shortest interior
FirstRegion == Search(text, 1)
HasRegion == FirstRegion # NoMatch

\* a second region lies after the first one
HasLaterRegion == HasRegion /\ Search(text, FirstRegion.stop) # NoMatch

\* the input with the interior of the first region replaced by data
SpliceFirst ==
    SubSeq(text, 1, FirstRegion.inner - 1) \o data \o Drop(text, FirstRegion.close)

\* the part of the input after the first region
AfterFirstRegion == Drop(text, FirstRegion.stop)

IsSuffix(t, s) == Len(t) <= Len(s) /\ Drop(s, Len(s) - Len(t) + 1) = t

\* C1: one call replaces the interior of at most one region: with two or more
\* regions in the text, everything after the first region, every later region
\* included, is returned exactly as it was in the input.
C1_OnlyFirstRegionReplaced ==
    (Returned /\ HasLaterRegion) => IsSuffix(AfterFirstRegion, result)

\* C2: when the text holds a region, the returned text is the input with
\* exactly the interior of the first region replaced by data; the markers and
\* every character outside the interior are those of the input, also when the
\* input holds '@@REPL@@' outside the interior.  Stated for the texts that
\* hold a single region, where the later regions of C1 play no part.
C2_ExactlyTheGapReplaced ==
    (Returned /\ HasRegion /\ ~HasLaterRegion) => result = SpliceFirst

\* C3: when the text holds no region, the text is returned unchanged and the
\* failure is logged with both patterns; the failure is logged if and only if
\* the text holds no region.
C3_FailureIffNoRegion ==
    Returned =>
        /\ ~HasRegion => (result = text /\ logged = << <<>>, ErrorMessage, <<>> >>)
        /\ (logged # <<>>) <=> ~HasRegion

====
